---- MODULE Spec2Model ----
(***************************************************************************)
(* A model of phobos' robotdictionary.py: the pose store (storePose,       *)
(* loadPose, get_poses, deriveStoredPoses), the collision bitmask          *)
(* (deriveCollision), the kinematic chains (deriveChainEntry) and the      *)
(* assembly of the model dictionary (buildModelDictionary).                *)
(*                                                                         *)
(* The scene is a function from object ids to records holding the          *)
(* attributes and custom properties the code reads.  Python dictionaries   *)
(* are functions, Python lists are sequences, None is the value None and   *)
(* the field keys of an object is the set of custom properties it carries. *)
(***************************************************************************)
EXTENDS Integers, Sequences, FiniteSets, TLC

VARIABLES objects,  \* the scene: object id -> attributes and custom properties
          texts,    \* bpy.data.texts: a sequence of [name, body]
          mode,     \* bpy.context.mode
          ret,      \* the last call: its name, its arguments and its outcome
          stored,   \* history: robot name -> pose names storePose has stored
          kept,     \* history: (robot, pose, link, rotation) at the last storePose(robot, pose)
          steps,    \* number of calls made so far
          loader_optional  \* the installed PyYAML lets yaml.load be called without Loader

vars == <<objects, texts, mode, ret, stored, kept, steps, loader_optional>>

None == "None"

\* ---------------------------------------------------------------- bounds
\* objects in the scene of the pose store
NPoseObj == 3
\* steps taken on the pose store (calls and turns of a bone)
MaxCalls == 3
\* collision groups enabled at once on a rigid body
MaxEnabled == 2
\* objects in the scene of the chain walk
NChainObj == 3
\* objects in the scene of the model dictionary
NBuildObj == 3

\* ---------------------------------------------------------------- program constants
\* obj.rigid_body.collision_groups[:16]
MaskLen == 16
\* int(..., 2)
Base == 2
\* number of collision groups of a rigid body in the host application
NumGroups == 20

\* ---------------------------------------------------------------- sequences
RECURSIVE Reverse(_)
Reverse(s) == IF s = <<>> THEN <<>> ELSE Reverse(Tail(s)) \o <<Head(s)>>

\* s[:n]
Slice(s, n) == SubSeq(s, 1, IF Len(s) < n THEN Len(s) ELSE n)

Range(s) == {s[i] : i \in 1..Len(s)}

RECURSIVE Pow(_, _)
Pow(b, n) == IF n = 0 THEN 1 ELSE b * Pow(b, n - 1)

\* the default attributes of an object
Blank ==
  [parent |-> 0, phobostype |-> "link", select |-> FALSE, hide |-> FALSE,
   keys |-> {}, modelname |-> "", jointname |-> "", linkname |-> "", roty |-> 0,
   rotation_mode |-> "QUATERNION",
   rigid_body |-> FALSE, collision_groups |-> <<>>,
   endChain |-> <<>>, startChain |-> <<>>,
   jointtype |-> "", maxvelocity |-> 0, maxeffort |-> 0, constraint |-> "none",
   motortype |-> "", maxSpeed |-> 0]

\* 'key' in obj
HasKey(o, key) == key \in objects[o].keys

Idle == [op |-> "none"]

\* ---------------------------------------------------------------- dictionaries
EmptyDict == <<>>

\* x = value; Body(x): the value is computed once and named
With(value, Body(_)) == CHOOSE r \in {Body(x) : x \in {value}} : TRUE

\* d[k] = v
DictSet(d, k, v) == [x \in (DOMAIN d) \cup {k} |-> IF x = k THEN v ELSE d[x]]

\* ---------------------------------------------------------------- names
\* obj.name: the host application keeps object names unique
ObjNames == <<"o1", "o2", "o3", "o4", "o5", "o6">>
name(o) == ObjNames[o]

\* nUtils.getObjectName(obj, phobostype): the custom property
\* '<phobostype>/name' when the object carries it, the object's name otherwise
getObjectName(o, phobostype) ==
  IF o = 0 THEN None
  ELSE LET nametype == IF phobostype = None THEN objects[o].phobostype ELSE phobostype
       IN IF nametype = "joint" /\ HasKey(o, "joint/name") THEN objects[o].jointname
          ELSE IF nametype = "link" /\ HasKey(o, "link/name") THEN objects[o].linkname
          ELSE name(o)

\* ---------------------------------------------------------------- initObjectProperties
\* the custom properties with a '/' in their key
SlashKeys ==
  {"link/name", "joint/name", "joint/type", "joint/maxvelocity", "joint/maxeffort",
   "motor/type", "motor/maxSpeed"}

\* category, specifier = key.split('/')
Category(key) ==
  CASE key = "link/name" -> "link"
    [] key \in {"joint/name", "joint/type", "joint/maxvelocity", "joint/maxeffort"} -> "joint"
    [] key \in {"motor/type", "motor/maxSpeed"} -> "motor"

Specifier(key) ==
  CASE key \in {"link/name", "joint/name"} -> "name"
    [] key \in {"joint/type", "motor/type"} -> "type"
    [] key = "joint/maxvelocity" -> "maxvelocity"
    [] key = "joint/maxeffort" -> "maxeffort"
    [] key = "motor/maxSpeed" -> "maxSpeed"

\* obj[key]
PropValue(obj, key) ==
  CASE key = "link/name" -> obj.linkname
    [] key = "joint/name" -> obj.jointname
    [] key = "joint/type" -> obj.jointtype
    [] key = "joint/maxvelocity" -> obj.maxvelocity
    [] key = "joint/maxeffort" -> obj.maxeffort
    [] key = "motor/type" -> obj.motortype
    [] key = "motor/maxSpeed" -> obj.maxSpeed

\* '$' + category
Dollar(category) == "$" \o category

\* initObjectProperties for the object obj of name objname, with a phobostype:
\* 'name' is getObjectName(obj, 'material'), the name of the object; a key
\* '<phobostype>/<specifier>' gives props[specifier]; a key
\* '<category>/<specifier>' of another category that is not in ignoretypes
\* gives props['$' + category][specifier]; a key without '/' gives nothing
PropsOf(obj, objname, phobostype, ignoretypes) ==
  LET slash == obj.keys \cap SlashKeys
      own == {k \in slash : Category(k) = phobostype}
      other == {k \in slash : Category(k) # phobostype /\ Category(k) \notin ignoretypes}
      keys == {"name"} \cup {Specifier(k) : k \in own} \cup {Dollar(Category(k)) : k \in other}
  IN [x \in keys |->
        IF \E k \in own : Specifier(k) = x
        THEN PropValue(obj, CHOOSE k \in own : Specifier(k) = x)
        ELSE IF x = "name" THEN objname
        ELSE LET cat == {k \in other : Dollar(Category(k)) = x}
             IN [sp \in {Specifier(k) : k \in cat} |->
                   PropValue(obj, CHOOSE k \in cat : Specifier(k) = sp)]]

initObjectProperties(o, phobostype, ignoretypes) ==
  PropsOf(objects[o], name(o), phobostype, ignoretypes)

\* ignoretypes='geometry': the test 'category not in ignoretypes' is then a
\* substring test, which leaves out no category other than parts of 'geometry'
GeometryIgnored == {"geometry"}

\* ---------------------------------------------------------------- deriveCollision
\* '1' if group else '0'
GroupChar(group) == IF group THEN "1" ELSE "0"

\* ''.join(['1' if group else '0' for group in groups])
JoinGroups(groups) == [i \in 1..Len(groups) |-> GroupChar(groups[i])]

CharDigit(c) == IF c = "1" THEN 1 ELSE 0

\* the digits of int(s, base), read from the left
RECURSIVE ParseDigits(_, _, _)
ParseDigits(s, base, acc) ==
  IF s = <<>> THEN acc ELSE ParseDigits(Tail(s), base, acc * base + CharDigit(Head(s)))

ValueError == "ValueError"

\* int(s, base): the empty string raises ValueError
ParseInt(s, base) == IF s = <<>> THEN ValueError ELSE ParseDigits(s, base, 0)

\* a mask that takes the groups without cutting them to 16
BitmaskUncut(groups) == ParseInt(Reverse(JoinGroups(groups)), Base)

\* int(''.join([...collision_groups[:16]])[::-1], 2)
Bitmask(groups) == ParseInt(Reverse(JoinGroups(Slice(groups, MaskLen))), Base)

\* int('', 2): no collision group at all
BitmaskRaises(groups) == JoinGroups(Slice(groups, MaskLen)) = <<>>

\* lines 297-299
CollisionBase(o) ==
  DictSet(DictSet(initObjectProperties(o, "collision", GeometryIgnored),
                  "geometry", "geometry"),
          "pose", "pose")

\* the ValueError of int() is not caught
deriveCollisionRaises(o) ==
  objects[o].rigid_body /\ BitmaskRaises(objects[o].collision_groups)

\* the try/except AttributeError: obj.rigid_body is None without rigid-body
\* settings; the value is ValueError when the call raises it
deriveCollision(o) ==
  IF ~objects[o].rigid_body THEN CollisionBase(o)
  ELSE IF deriveCollisionRaises(o) THEN ValueError
  ELSE DictSet(CollisionBase(o), "bitmask", Bitmask(objects[o].collision_groups))

DeriveCollisionCall(o) ==
  /\ ret' = [op |-> "deriveCollision", obj |-> o, value |-> deriveCollision(o)]
  /\ UNCHANGED <<objects, texts, mode, stored, kept, steps, loader_optional>>

\* the sets of at most k enabled group indices
RECURSIVE EnabledUpTo(_)
EnabledUpTo(k) ==
  IF k = 0 THEN {{}}
  ELSE LET P == EnabledUpTo(k - 1) IN P \cup {s \cup {i} : s \in P, i \in 1..NumGroups}

GroupVectors == {[i \in 1..NumGroups |-> i \in S] : S \in EnabledUpTo(MaxEnabled)}

InitMask ==
  /\ \E rb \in BOOLEAN, groups \in GroupVectors, tagged \in BOOLEAN :
       /\ ~rb => groups = [i \in 1..NumGroups |-> FALSE]
       /\ objects = [o \in 1..1 |->
            [Blank EXCEPT !.phobostype = "collision", !.rigid_body = rb,
                          !.keys = IF tagged THEN {"link/name"} ELSE {},
                          !.linkname = IF tagged THEN "la" ELSE "",
                          !.collision_groups = IF rb THEN groups ELSE <<>>]]
  /\ texts = <<>>
  /\ mode = "OBJECT"
  /\ ret = Idle
  /\ stored = <<>>
  /\ kept = {}
  /\ steps = 0
  /\ loader_optional = TRUE

NextMask == \E o \in DOMAIN objects : DeriveCollisionCall(o)

SpecMask == InitMask /\ [][NextMask]_vars

\* C8: bit i of 'bitmask' is set exactly when collision group i is enabled, for
\* i in 0..15, the groups from 16 on never count, so 0 <= bitmask < 2^16; an
\* object without rigid-body settings gets no 'bitmask' key.
C8_BitmaskPacksGroups ==
  ret.op = "deriveCollision" =>
    LET rb == objects[ret.obj].collision_groups
        c == ret.value
    IN IF ~objects[ret.obj].rigid_body
       THEN "bitmask" \notin DOMAIN c
       ELSE /\ "bitmask" \in DOMAIN c
            /\ c.bitmask >= 0
            /\ c.bitmask < Pow(2, 16)
            /\ \A i \in 0..15 : ((c.bitmask \div Pow(2, i)) % 2 = 1) <=> rb[i + 1]

\* a mask was packed from groups of which one below 16 and one from 16 on are enabled
C8_Witness ==
  /\ ret.op = "deriveCollision"
  /\ objects[ret.obj].rigid_body
  /\ \E i \in 1..16 : objects[ret.obj].collision_groups[i]
  /\ \E i \in 17..NumGroups : objects[ret.obj].collision_groups[i]
  /\ "bitmask" \in DOMAIN ret.value

\* ---------------------------------------------------------------- deriveChainEntry
\* a walk that takes the object itself for the start of the chain
RECURSIVE WalkFromSelf(_, _, _, _)
WalkFromSelf(o, chainName, parent, elements) ==
  IF HasKey(parent, "startChain") /\ chainName \in Range(objects[parent].startChain)
  THEN << [name |-> chainName, start |-> getObjectName(parent, None),
           end |-> getObjectName(o, None),
           elements |-> Append(elements, getObjectName(parent, None))] >>
  ELSE IF objects[parent].parent = 0 THEN <<>>
  ELSE WalkFromSelf(o, chainName, objects[parent].parent, Append(elements, name(parent)))

\* the while loop of one chain name: <<chain>> when the chain closes, <<>> when
\* the walk reaches an object without parent (chain = None)
RECURSIVE Walk(_, _, _, _)
Walk(o, chainName, parent, elements) ==
  IF objects[parent].parent = 0
  THEN <<>>
  ELSE LET elems == Append(elements, name(parent))
           up == objects[parent].parent
       IN IF HasKey(up, "startChain") /\ chainName \in Range(objects[up].startChain)
          THEN << [name |-> chainName, start |-> getObjectName(up, None),
                   end |-> getObjectName(o, None),
                   elements |-> Append(elems, getObjectName(up, None))] >>
          ELSE Walk(o, chainName, up, elems)

\* the for loop over chainlist
RECURSIVE ChainLoop(_, _)
ChainLoop(o, chainlist) ==
  IF chainlist = <<>> THEN <<>>
  ELSE Walk(o, Head(chainlist), o, <<>>) \o ChainLoop(o, Tail(chainlist))

deriveChainEntry(o) == ChainLoop(o, objects[o].endChain)

\* without 'endChain' the name chainlist is unbound when the for loop reads it
DeriveChainEntryCall(o) ==
  /\ ret' = IF HasKey(o, "endChain")
            THEN [op |-> "deriveChainEntry", obj |-> o, status |-> "returned",
                  value |-> deriveChainEntry(o)]
            ELSE [op |-> "deriveChainEntry", obj |-> o, status |-> "UnboundLocalError",
                  value |-> <<>>]
  /\ UNCHANGED <<objects, texts, mode, stored, kept, steps, loader_optional>>

EndChainLists == {<<"c1">>, <<"c2", "c1">>, <<"c1", "c1">>}
StartChainLists == {<<"c1">>, <<"c1", "c2">>}

\* a forest: every object hangs below an object of smaller id, or below none
Forests(n) == {f \in [1..n -> 0..n] : \A o \in 1..n : f[o] < o}

InitChain ==
  /\ \E f \in Forests(NChainObj), e \in 1..NChainObj, named \in BOOLEAN,
        hasEnd \in BOOLEAN, ec \in EndChainLists,
        starts \in [1..NChainObj -> {<<>>} \cup StartChainLists] :
       objects = [o \in 1..NChainObj |->
         [Blank EXCEPT
            !.parent = f[o],
            !.keys = (IF o = e /\ hasEnd THEN {"endChain"} ELSE {})
                       \cup (IF starts[o] # <<>> THEN {"startChain"} ELSE {})
                       \cup (IF o = 1 /\ named THEN {"link/name"} ELSE {}),
            !.linkname = IF o = 1 /\ named THEN "la" ELSE "",
            !.endChain = IF o = e /\ hasEnd THEN ec ELSE <<>>,
            !.startChain = starts[o]]]
  /\ texts = <<>>
  /\ mode = "OBJECT"
  /\ ret = Idle
  /\ stored = <<>>
  /\ kept = {}
  /\ steps = 0
  /\ loader_optional = TRUE

NextChain == \E o \in DOMAIN objects : DeriveChainEntryCall(o)

SpecChain == InitChain /\ [][NextChain]_vars

\* the strict ancestors of an object, nearest first
RECURSIVE Ancestors(_)
Ancestors(o) ==
  IF objects[o].parent = 0 THEN <<>>
  ELSE <<objects[o].parent>> \o Ancestors(objects[o].parent)

\* the positions in Ancestors(o) of the ancestors that start chain c
Starters(o, c) ==
  {i \in 1..Len(Ancestors(o)) :
     /\ HasKey(Ancestors(o)[i], "startChain")
     /\ c \in Range(objects[Ancestors(o)[i]].startChain)}

Nearest(S) == CHOOSE i \in S : \A j \in S : i <= j

\* C7: deriveChainEntry returns, in the order of obj's 'endChain', one entry for
\* each chain name that some strict ancestor starts: its end is obj, its start the
\* nearest such ancestor, its elements the objects from obj up to and including
\* that ancestor; a name no ancestor starts gives no entry and the names after it
\* are still processed.
C7_ChainEntries ==
  (ret.op = "deriveChainEntry" /\ ret.status = "returned") =>
    LET o == ret.obj
        anc == Ancestors(o)
        closable == SelectSeq(objects[o].endChain, LAMBDA c : Starters(o, c) # {})
    IN /\ Len(ret.value) = Len(closable)
       /\ \A k \in 1..Len(closable) :
            LET c == closable[k]
                n == Nearest(Starters(o, c))
                e == ret.value[k]
            IN /\ e.name = c
               /\ e.end = getObjectName(o, None)
               /\ e.start = getObjectName(anc[n], None)
               /\ Len(e.elements) = n + 1
               /\ e.elements[1] = name(o)
               /\ \A i \in 1..(n - 1) : e.elements[i + 1] = name(anc[i])
               /\ e.elements[n + 1] = getObjectName(anc[n], None)

\* a call on an object two levels below the start of its second chain name, the
\* first name being started by no ancestor
C7_Witness ==
  /\ ret.op = "deriveChainEntry"
  /\ ret.status = "returned"
  /\ Len(objects[ret.obj].endChain) = 2
  /\ Starters(ret.obj, objects[ret.obj].endChain[1]) = {}
  /\ Starters(ret.obj, objects[ret.obj].endChain[2]) # {}
  /\ Nearest(Starters(ret.obj, objects[ret.obj].endChain[2])) >= 2
  /\ Len(ret.value) = 1

\* ---------------------------------------------------------------- YAML keys

\* the keys a YAML mapping can carry here, in the order yaml.dump sorts them
KeyOrder == <<"ja", "jb", "o1", "o2", "o3", "o4", "o5", "o6", "p", "q">>

SortedKeys(d) == SelectSeq(KeyOrder, LAMBDA k : k \in DOMAIN d)

\* the ids of a set of objects in scene order
RECURSIVE InOrder(_)
InOrder(S) ==
  IF S = {} THEN <<>>
  ELSE LET m == CHOOSE x \in S : \A y \in S : x <= y IN <<m>> \o InOrder(S \ {m})

\* ---------------------------------------------------------------- YAML text
\* A text body is a sequence of lines <<kind, key, value>>:
\*   <<"{}", "", 0>>        the empty mapping  {}
\*   <<"pose", p, 0>>       p:            (the joint lines of p follow)
\*   <<"pose{}", p, 0>>     p: {}
\*   <<"joint", j, v>>        j: v
\* The empty text '' is the empty sequence.
RECURSIVE DumpJoints(_, _)
DumpJoints(joints, keys) ==
  IF keys = <<>> THEN <<>>
  ELSE << <<"joint", Head(keys), joints[Head(keys)]>> >> \o DumpJoints(joints, Tail(keys))

RECURSIVE DumpPoses(_, _)
DumpPoses(poses, keys) ==
  IF keys = <<>> THEN <<>>
  ELSE LET k == Head(keys)
       IN (IF DOMAIN poses[k] = {}
           THEN << <<"pose{}", k, 0>> >>
           ELSE << <<"pose", k, 0>> >> \o DumpJoints(poses[k], SortedKeys(poses[k])))
          \o DumpPoses(poses, Tail(keys))

\* yaml.dump(poses)
yamlDump(poses) ==
  IF DOMAIN poses = {} THEN << <<"{}", "", 0>> >> ELSE DumpPoses(poses, SortedKeys(poses))

RECURSIVE ParseLines(_, _, _)
ParseLines(lines, poses, cur) ==
  IF lines = <<>> THEN poses
  ELSE LET l == Head(lines)
       IN IF l[1] = "pose" \/ l[1] = "pose{}"
          THEN ParseLines(Tail(lines), DictSet(poses, l[2], EmptyDict), l[2])
          ELSE IF l[1] = "joint"
          THEN ParseLines(Tail(lines),
                          DictSet(poses, cur, DictSet(poses[cur], l[2], l[3])), cur)
          ELSE ParseLines(Tail(lines), poses, cur)

TypeError == "TypeError"

\* yaml.load(text) is called with the text alone (lines 518, 548, 571, 590).
\* A PyYAML below 6 takes that call and returns the parsed dictionary; from
\* 6.0 on load() has a required second parameter Loader and the call raises
\* TypeError.  The module pins no version: which of the two the call does is
\* a property of the installation, loader_optional.
yamlLoadRaises == ~loader_optional

yamlLoad(text) == IF yamlLoadRaises THEN TypeError ELSE ParseLines(text, EmptyDict, "")

\* ---------------------------------------------------------------- text files
\* A text name is the pair <<its first 12 characters, the rest>>.
PosePrefix == "robot_poses_"

\* 'robot_poses_' + robot_name
PoseFile(robot_name) == <<PosePrefix, robot_name>>

\* file_name.startswith('robot_poses_')
StartsWithPrefix(file_name) == file_name[1] = PosePrefix

\* file_name[len('robot_poses_'):]
AfterPrefix(file_name) == file_name[2]

\* bUtils.readTextFile: the body of the text of that name, '' when there is none
readTextFileIn(txts, file_name) ==
  LET found == SelectSeq(txts, LAMBDA t : t.name = file_name)
  IN IF found = <<>> THEN <<>> ELSE found[1].body

readTextFile(file_name) == readTextFileIn(texts, file_name)

\* bUtils.updateTextFile: remove the text of that name, then create it anew
updateTextFile(file_name, content) ==
  SelectSeq(texts, LAMBDA t : t.name # file_name)
    \o << [name |-> file_name, body |-> content] >>

\* ---------------------------------------------------------------- scene queries
RECURSIVE getRoot(_)
getRoot(o) == IF objects[o].parent = 0 THEN o ELSE getRoot(objects[o].parent)

\* sUtils.getRoots()
getRoots == {o \in DOMAIN objects : objects[o].parent = 0 /\ objects[o].phobostype = "link"}

\* sUtils.getChildren(root): the objects of the tree of root, root included
getChildren(root) == {o \in DOMAIN objects : getRoot(o) = root}

\* sUtils.getObjectsByPhobostypes(['link'])
getLinkObjects == {o \in DOMAIN objects : objects[o].phobostype = "link"}

\* ---------------------------------------------------------------- storePose
\* lines 515-518
LoadedPoses(load_file) == IF load_file = <<>> THEN EmptyDict ELSE yamlLoad(load_file)

\* link.select and link.phobostype == 'link'
IsCaptured(link) == objects[link].select /\ objects[link].phobostype = "link"

\* the inner for loop: the links of one root
RECURSIVE CaptureLinks(_, _)
CaptureLinks(links, new_pose) ==
  IF links = <<>> THEN new_pose
  ELSE LET link == Head(links)
       IN CaptureLinks(Tail(links),
            IF IsCaptured(link)
            THEN DictSet(new_pose, getObjectName(link, "joint"), objects[link].roty)
            ELSE new_pose)

\* the outer for loop: the roots whose modelname is the robot
RECURSIVE CaptureRoots(_, _, _)
CaptureRoots(roots, robot_name, new_pose) ==
  IF roots = <<>> THEN new_pose
  ELSE LET root == Head(roots)
       IN CaptureRoots(Tail(roots), robot_name,
            IF objects[root].modelname = robot_name
            THEN CaptureLinks(InOrder(getChildren(root)), new_pose)
            ELSE new_pose)

\* the links storePose sets to rotation mode XYZ
CapturedLinks(robot_name) ==
  {l \in DOMAIN objects :
     /\ getRoot(l) \in getRoots
     /\ HasKey(getRoot(l), "modelname")
     /\ objects[getRoot(l)].modelname = robot_name
     /\ IsCaptured(l)}

\* root['modelname'] raises KeyError for a root without the property
StoreRaises == \E root \in getRoots : ~HasKey(root, "modelname")

CallBound == steps < MaxCalls

\* the selected link-type children of the roots whose modelname is r
SelectedLinksOf(r) ==
  {l \in DOMAIN objects :
     /\ objects[l].select
     /\ objects[l].phobostype = "link"
     /\ objects[getRoot(l)].parent = 0
     /\ "modelname" \in objects[getRoot(l)].keys
     /\ objects[getRoot(l)].modelname = r}

\* history: the rotations the selected links of the robot have when
\* storePose(robot_name, pose_name) is called, in place of those of an earlier
\* call with the same names
Captures(robot_name, pose_name) ==
  {k \in kept : ~(k.robot = robot_name /\ k.pose = pose_name)}
    \cup {[robot |-> robot_name, pose |-> pose_name, link |-> l, v |-> objects[l].roty]
          : l \in SelectedLinksOf(robot_name)}

\* yaml.load at line 518 raises before anything is changed; root['modelname']
\* at line 523 raises in pose mode, with the links of the roots before it set
\* to XYZ and nothing written
storePose(robot_name, pose_name) ==
  /\ CallBound
  /\ steps' = steps + 1
  /\ kept' = Captures(robot_name, pose_name)
  /\ UNCHANGED loader_optional
  /\ IF readTextFile(PoseFile(robot_name)) # <<>> /\ yamlLoadRaises
     THEN /\ ret' = [op |-> "storePose", robot |-> robot_name, pose |-> pose_name,
                     status |-> TypeError]
          /\ UNCHANGED <<objects, texts, mode, stored>>
     ELSE IF StoreRaises
     THEN LET bad == CHOOSE b \in getRoots :
                         /\ ~HasKey(b, "modelname")
                         /\ \A c \in getRoots : ~HasKey(c, "modelname") => b <= c
              done == {l \in CapturedLinks(robot_name) : getRoot(l) < bad}
          IN /\ objects' = [o \in DOMAIN objects |->
                              IF o \in done
                              THEN [objects[o] EXCEPT !.rotation_mode = "XYZ"]
                              ELSE objects[o]]
             /\ mode' = "POSE"
             /\ ret' = [op |-> "storePose", robot |-> robot_name, pose |-> pose_name,
                        status |-> "KeyError"]
             /\ UNCHANGED <<texts, stored>>
     ELSE LET file_name == PoseFile(robot_name)
              poses == LoadedPoses(readTextFile(file_name))
              new_pose == CaptureRoots(InOrder(getRoots), robot_name, EmptyDict)
              cap == CapturedLinks(robot_name)
          IN /\ objects' = [o \in DOMAIN objects |->
                              IF o \in cap
                              THEN [objects[o] EXCEPT !.rotation_mode = "XYZ"]
                              ELSE objects[o]]
             /\ texts' = updateTextFile(file_name, yamlDump(DictSet(poses, pose_name, new_pose)))
             /\ mode' = mode
             /\ ret' = [op |-> "storePose", robot |-> robot_name, pose |-> pose_name,
                        status |-> "returned"]
             /\ stored' = [stored EXCEPT ![robot_name] = @ \cup {pose_name}]

\* ---------------------------------------------------------------- loadPose
\* nUtils.getObjectName(obj, 'joint') in poses[pose_name]
IsPosed(obj, pose) == getObjectName(obj, "joint") \in DOMAIN pose

loadPose(robot_name, pose_name) ==
  /\ CallBound
  /\ steps' = steps + 1
  /\ LET load_file == readTextFile(PoseFile(robot_name))
     IN IF load_file = <<>>
        THEN /\ ret' = [op |-> "loadPose", robot |-> robot_name, pose |-> pose_name,
                        status |-> "No poses stored."]
             /\ UNCHANGED <<objects, texts, mode, stored, kept, loader_optional>>
        ELSE IF yamlLoadRaises
        THEN /\ ret' = [op |-> "loadPose", robot |-> robot_name, pose |-> pose_name,
                        status |-> TypeError]
             /\ UNCHANGED <<objects, texts, mode, stored, kept, loader_optional>>
        ELSE LET poses == yamlLoad(load_file)
             IN /\ ret' = [op |-> "loadPose", robot |-> robot_name, pose |-> pose_name,
                           status |-> "returned"]
                /\ objects' =
                     IF pose_name \in DOMAIN poses
                     THEN [o \in DOMAIN objects |->
                             IF o \in getLinkObjects /\ IsPosed(o, poses[pose_name])
                             THEN [objects[o] EXCEPT
                                     !.rotation_mode = "XYZ",
                                     !.roty = poses[pose_name][getObjectName(o, "joint")]]
                             ELSE objects[o]]
                     ELSE objects
                /\ UNCHANGED <<texts, mode, stored, kept, loader_optional>>

\* ---------------------------------------------------------------- get_poses
\* the orders a list of the keys of a dictionary can have
KeyLists(d) ==
  {s \in [1..Cardinality(DOMAIN d) -> DOMAIN d] : \A i, j \in DOMAIN s : s[i] = s[j] => i = j}

get_poses(robot_name) ==
  /\ LET load_file == readTextFile(PoseFile(robot_name))
     IN IF load_file = <<>>
        THEN ret' = [op |-> "get_poses", robot |-> robot_name, status |-> "returned",
                     value |-> <<>>]
        ELSE IF yamlLoadRaises
        THEN ret' = [op |-> "get_poses", robot |-> robot_name, status |-> TypeError]
        ELSE \E keys \in KeyLists(yamlLoad(load_file)) :
               ret' = [op |-> "get_poses", robot |-> robot_name, status |-> "returned",
                       value |-> keys]
  /\ CallBound
  /\ steps' = steps + 1
  /\ UNCHANGED <<objects, texts, mode, stored, kept, loader_optional>>

\* ---------------------------------------------------------------- deriveStoredPoses
\* the for loop over poses
PoseDict(poses) == [pose \in DOMAIN poses |-> [name |-> pose, joints |-> poses[pose]]]

\* the for loop over bpy.data.texts, [status, value]: the break ends it at the
\* first empty pose text, yaml.load at line 590 may raise
RECURSIVE StoredLoop(_, _)
StoredLoop(txts, poses_dict) ==
  IF txts = <<>> THEN [status |-> "returned", value |-> poses_dict]
  ELSE LET file_name == Head(txts).name
       IN IF StartsWithPrefix(file_name)
          THEN LET poses_file == readTextFile(file_name)
               IN IF poses_file = <<>>
                  THEN [status |-> "returned",
                        value |-> DictSet(poses_dict, AfterPrefix(file_name), EmptyDict)]
                  ELSE IF yamlLoadRaises
                  THEN [status |-> TypeError]
                  ELSE StoredLoop(Tail(txts),
                         DictSet(poses_dict, AfterPrefix(file_name),
                                 PoseDict(yamlLoad(poses_file))))
          ELSE StoredLoop(Tail(txts), poses_dict)

deriveStoredPoses == StoredLoop(texts, EmptyDict)

DeriveStoredPosesCall ==
  /\ CallBound
  /\ steps' = steps + 1
  /\ ret' = [x \in {"op"} \cup DOMAIN deriveStoredPoses |->
               IF x = "op" THEN "deriveStoredPoses" ELSE deriveStoredPoses[x]]
  /\ UNCHANGED <<objects, texts, mode, stored, kept, loader_optional>>

\* ---------------------------------------------------------------- the user
Rotations == {0, 1}

\* the user turns the bone of a link
Rotate(o, v) ==
  /\ objects[o].phobostype = "link"
  /\ objects[o].roty # v
  /\ objects' = [objects EXCEPT ![o].roty = v]
  /\ CallBound
  /\ steps' = steps + 1
  /\ ret' = [op |-> "rotate"]
  /\ UNCHANGED <<texts, mode, stored, kept, loader_optional>>

\* ---------------------------------------------------------------- the pose store
Robots == {"r1", "r2"}
PoseNames == {"p", "q"}

Notes == [name |-> <<"notes", "">>, body |-> <<>>]
EmptyPoseText(r) == [name |-> PoseFile(r), body |-> <<>>]

\* the texts of the scene before any pose is stored
InitialTexts ==
  {<<>>, <<EmptyPoseText("r1"), Notes>>, <<Notes, EmptyPoseText("r2")>>}

\* Objects 1 and 2 are roots, every other object hangs below the object two
\* ids before it.  Root 1 is the robot r1.
PoseParent(o) == IF o <= 2 THEN 0 ELSE o - 2

InitPose ==
  /\ \E m2 \in Robots \cup {""}, jn \in {{}, {1, 3}},
        unsel \in {0, NPoseObj}, vis \in {0, NPoseObj} :
       /\ unsel = 0 \/ vis = 0
       /\ objects = [o \in 1..NPoseObj |->
         [Blank EXCEPT
            !.parent = PoseParent(o),
            !.phobostype = IF o = vis /\ PoseParent(o) # 0 THEN "visual" ELSE "link",
            !.select = (o # unsel),
            !.keys = (IF o = 1 \/ (o = 2 /\ m2 # "") THEN {"modelname"} ELSE {})
                       \cup (IF o \in jn THEN {"joint/name"} ELSE {}),
            !.modelname = IF o = 1 THEN "r1" ELSE IF o = 2 THEN m2 ELSE "",
            !.jointname = IF o \in jn THEN "ja" ELSE ""]]
  /\ texts \in InitialTexts
  /\ mode = "OBJECT"
  /\ ret = Idle
  /\ stored = [r \in Robots |-> {}]
  /\ kept = {}
  /\ steps = 0
  /\ loader_optional \in BOOLEAN

NextPose ==
  \/ \E r \in Robots, p \in PoseNames : storePose(r, p)
  \/ \E r \in Robots, p \in PoseNames : loadPose(r, p)
  \/ \E r \in Robots : get_poses(r)
  \/ DeriveStoredPosesCall
  \/ \E o \in DOMAIN objects, v \in Rotations : Rotate(o, v)

SpecPose == InitPose /\ [][NextPose]_vars

TypeOKPose == steps \in 0..MaxCalls

\* ---------------------------------------------------------------- claims on the pose store
\* the poses a pose text holds
PosesOf(body) == ParseLines(body, EmptyDict, "")

\* the poses a list of texts holds for a robot
PosesIn(txts, r) == PosesOf(readTextFileIn(txts, PoseFile(r)))

\* C1: after storePose(robot, pose) the poses stored for the robot map pose to
\* the newly captured pose, whose keys are the joint names of the selected
\* links of the robot and which gives the joint name of every such link the y
\* rotation of that link; every other pose stored before is still stored,
\* unchanged, and no further pose name appears.
C1_StoreOverwrites ==
  [][ret'.op = "storePose" =>
       LET r == ret'.robot
           p == ret'.pose
           before == PosesIn(texts, r)
           after == PosesIn(texts', r)
           links == SelectedLinksOf(r)
       IN /\ ret'.status = "returned"
          /\ DOMAIN after = (DOMAIN before) \cup {p}
          /\ DOMAIN after[p] = {getObjectName(l, "joint") : l \in links}
          /\ \A l \in links : after[p][getObjectName(l, "joint")] = objects[l].roty
          /\ \A q \in (DOMAIN before) \ {p} : after[q] = before[q]
    ]_vars

\* C2: get_poses(robot) returns each pose name stored for the robot once and
\* nothing else (the empty list when none was stored), and a storePose for one
\* robot leaves the pose names of every other robot as they were.
C2_GetPoses ==
  /\ [](ret.op = "get_poses" =>
          /\ ret.status = "returned"
          /\ Range(ret.value) = stored[ret.robot]
          /\ Len(ret.value) = Cardinality(stored[ret.robot]))
  /\ [][ret'.op = "storePose" =>
          \A r \in Robots \ {ret'.robot} :
             DOMAIN PosesIn(texts', r) = DOMAIN PosesIn(texts, r)]_vars

\* C3: after loadPose(robot, pose) every link that was a selected link of the
\* robot at the last call of storePose(robot, pose) has the y rotation it had
\* at that call.
C3_RoundTripAnyLink ==
  ret.op = "loadPose" =>
    \A k \in kept :
      (k.robot = ret.robot /\ k.pose = ret.pose) => objects[k.link].roty = k.v

\* the texts whose name starts with 'robot_poses_'
PoseTexts == {i \in 1..Len(texts) : texts[i].name[1] = "robot_poses_"}

\* C4: deriveStoredPoses returns one entry for every text whose name starts with
\* 'robot_poses_', keyed by the robot name after the prefix: the empty dictionary
\* for an empty text, pose name -> {'name', 'joints'} otherwise.
C4_StoredPosesComplete ==
  ret.op = "deriveStoredPoses" =>
    /\ ret.status = "returned"
    /\ DOMAIN ret.value = {texts[i].name[2] : i \in PoseTexts}
    /\ \A i \in PoseTexts :
         LET entry == ret.value[texts[i].name[2]]
         IN IF texts[i].body = <<>>
            THEN DOMAIN entry = {}
            ELSE LET poses == PosesOf(texts[i].body)
                 IN /\ DOMAIN entry = DOMAIN poses
                    /\ \A p \in DOMAIN poses :
                         entry[p].name = p /\ entry[p].joints = poses[p]

\* ---------------------------------------------------------------- deriveKinematics
\* sUtils.getEffectiveParent: the nearest ancestor that is selected and not
\* hidden, 0 (None) when there is none
RECURSIVE EffectiveFrom(_)
EffectiveFrom(parent) ==
  IF parent = 0 THEN 0
  ELSE IF objects[parent].select /\ ~objects[parent].hide THEN parent
  ELSE EffectiveFrom(objects[parent].parent)

getEffectiveParent(o) == EffectiveFrom(objects[o].parent)

\* the key set of a dictionary d extended by the entries of the record r
Extend(d, r) ==
  [k \in (DOMAIN d) \cup (DOMAIN r) |-> IF k \in DOMAIN r THEN r[k] ELSE d[k]]

deriveLink(o) ==
  Extend(initObjectProperties(o, "link", {"joint", "motor"}),
         [pose |-> "pose", collision |-> EmptyDict, visual |-> EmptyDict,
          inertial |-> EmptyDict, approxcollision |-> <<>>])

\* del d[k]
Del(d, k) == [x \in (DOMAIN d) \ {k} |-> d[x]]

\* joints.deriveJointType(obj): the type the constraints of the bone give, a
\* bone without constraints being a floating joint
deriveJointType(obj) == IF obj.constraint = "revolute" THEN "revolute" ELSE "floating"

\* lines 140-141: deriveJointType(obj, adjust=True) writes the type it finds
\* to obj['joint/type']
AdjustJointType(obj) ==
  IF "joint/type" \in obj.keys THEN obj
  ELSE [obj EXCEPT !.keys = @ \cup {"joint/type"}, !.jointtype = deriveJointType(obj)]

\* joints.getJointConstraints(obj): axis and (lower, upper) of a bone with a
\* rotation limit, None (<<>>) twice for a bone without constraints
getJointConstraints(obj) ==
  IF obj.constraint = "revolute"
  THEN [axis |-> <<0, 1, 0>>, minmax |-> <<-1, 1>>]
  ELSE [axis |-> <<>>, minmax |-> <<>>]

\* lines 145-162 for the props of lines 142-143 and the (axis, minmax) of line 144
JointWith(props, c) ==
  LET p1 == IF c.axis # <<>> THEN DictSet(props, "axis", c.axis) ELSE props
      l0 == IF c.minmax # <<>> /\ Len(c.minmax) = 2
            THEN [lower |-> c.minmax[1], upper |-> c.minmax[2]]
            ELSE EmptyDict
      l1 == IF "maxvelocity" \in DOMAIN p1 THEN DictSet(l0, "velocity", p1.maxvelocity) ELSE l0
      p2 == Del(p1, "maxvelocity")
      l2 == IF "maxeffort" \in DOMAIN p2 THEN DictSet(l1, "effort", p2.maxeffort) ELSE l1
      p3 == Del(p2, "maxeffort")
  IN IF DOMAIN l2 # {} THEN DictSet(p3, "limits", l2) ELSE p3

deriveJoint(o) ==
  With(AdjustJointType(objects[o]), LAMBDA obj :
    With(Extend(PropsOf(obj, name(o), "joint", {"link", "motor"}),
                [parent |-> getObjectName(getEffectiveParent(o), None),
                 child |-> getObjectName(o, None)]), LAMBDA props :
      With(getJointConstraints(obj), LAMBDA c : JointWith(props, c))))

\* <<motor>>, or <<>> for None: no 'motor/...' property (len(props) = 1), or a
\* KeyError caught at line 209: props['type'], joint['limits']['lower'] or
\* props['maxSpeed'] is missing
deriveMotor(o, joint) ==
  LET props == initObjectProperties(o, "motor", {"link", "joint"})
      p1 == DictSet(props, "joint",
                    IF HasKey(o, "joint/name") THEN objects[o].jointname ELSE name(o))
  IN IF Cardinality(DOMAIN props) <= 1 THEN <<>>
     ELSE IF "type" \notin DOMAIN p1 THEN <<>>
     ELSE IF p1.type = "PID"
     THEN IF "limits" \in DOMAIN joint
          THEN IF "lower" \in DOMAIN joint.limits
               THEN << DictSet(DictSet(p1, "minValue", joint.limits.lower),
                               "maxValue", joint.limits.upper) >>
               ELSE <<>>
          ELSE <<p1>>
     ELSE IF p1.type = "DC"
     THEN IF "maxSpeed" \in DOMAIN p1
          THEN << DictSet(DictSet(p1, "minValue", 0), "maxValue", p1.maxSpeed) >>
          ELSE <<>>
     ELSE <<p1>>

\* a test that takes every object to have a parent
HasParentAlways(o) == TRUE

\* if obj.parent:
HasParent(o) == objects[o].parent # 0

\* link, <<joint>> or <<>> for None, <<motor>> or <<>> for None
deriveKinematics(o) ==
  LET link == deriveLink(o)
  IN IF HasParent(o)
     THEN With(deriveJoint(o), LAMBDA joint :
            [link |-> link, joint |-> <<joint>>, motor |-> deriveMotor(o, joint)])
     ELSE [link |-> link, joint |-> <<>>, motor |-> <<>>]

\* the scene after deriveKinematics has been called on the links: deriveJoint
\* has written 'joint/type' to those with a parent
AdjustedBy(links) ==
  [o \in DOMAIN objects |->
     IF o \in links /\ HasParent(o) THEN AdjustJointType(objects[o]) ELSE objects[o]]

DeriveKinematicsCall(o) ==
  /\ objects[o].phobostype = "link"
  /\ ret' = [op |-> "deriveKinematics", obj |-> o, value |-> deriveKinematics(o)]
  /\ objects' = AdjustedBy({o})
  /\ UNCHANGED <<texts, mode, stored, kept, steps, loader_optional>>

\* ---------------------------------------------------------------- buildModelDictionary
RECURSIVE BitOr(_, _)
\* a | b
BitOr(a, b) ==
  IF a = 0 THEN b
  ELSE IF b = 0 THEN a
  ELSE (IF a % 2 = 1 \/ b % 2 = 1 THEN 1 ELSE 0) + 2 * BitOr(a \div 2, b \div 2)

\* lines 605-617
EmptyRobot ==
  [links |-> EmptyDict, joints |-> EmptyDict, poses |-> EmptyDict, sensors |-> EmptyDict,
   motors |-> EmptyDict, controllers |-> EmptyDict, materials |-> EmptyDict,
   lights |-> EmptyDict, groups |-> EmptyDict, chains |-> EmptyDict, date |-> "now"]

\* a test that lets any object be the root
RootAccepted(root) == TRUE

\* root.phobostype != 'link' raises
RootIsLink(root) == objects[root].phobostype = "link"

\* lines 621-624
ModelName(root) ==
  IF HasKey(root, "modelname") THEN objects[root].modelname ELSE "unnamed_robot"

\* sUtils.getChildren(root, selected_only=True, include_hidden=False)
ObjectList(root) ==
  InOrder({o \in getChildren(root) : objects[o].select /\ ~objects[o].hide})

\* lines 635-639 for the (link, joint, motor) of line 634
EnterKinematics(robot, k) ==
  LET r1 == [robot EXCEPT !.links = DictSet(@, k.link.name, k.link)]
      r2 == IF k.joint # <<>>
            THEN [r1 EXCEPT !.joints = DictSet(@, k.joint[1].name, k.joint[1])]
            ELSE r1
  IN IF k.motor # <<>>
     THEN [r2 EXCEPT !.motors = DictSet(@, k.motor[1].name, k.motor[1])]
     ELSE r2

\* lines 632-639; the scene holds no inertial object
RECURSIVE LinkLoop(_, _)
LinkLoop(linklist, robot) ==
  IF linklist = <<>> THEN robot
  ELSE With(deriveKinematics(Head(linklist)), LAMBDA k :
         With(EnterKinematics(robot, k), LAMBDA r : LinkLoop(Tail(linklist), r)))

\* lines 261-263; the objects have no lod_levels
deriveVisual(o) ==
  DictSet(DictSet(initObjectProperties(o, "visual", GeometryIgnored),
                  "geometry", "geometry"),
          "pose", "pose")

\* lines 652-661: [status, robot]; an effective parent None raises AttributeError
\* at line 656, a parent name that is no link of the robot KeyError at line 657
RECURSIVE GeometryLoop(_, _)
GeometryLoop(objectlist, robot) ==
  IF objectlist = <<>> THEN [status |-> "ok", robot |-> robot]
  ELSE LET obj == Head(objectlist)
           type == objects[obj].phobostype
       IN IF type = "visual" \/ type = "collision"
          THEN LET props == IF type = "visual" THEN deriveVisual(obj) ELSE deriveCollision(obj)
                   parent == getEffectiveParent(obj)
                   parentname == getObjectName(parent, None)
               IN IF type = "collision" /\ deriveCollisionRaises(obj)
                  THEN [status |-> "ValueError", robot |-> robot]
                  ELSE IF parent = 0 THEN [status |-> "AttributeError", robot |-> robot]
                  ELSE IF parentname \notin DOMAIN robot.links
                  THEN [status |-> "KeyError", robot |-> robot]
                  ELSE GeometryLoop(Tail(objectlist),
                         [robot EXCEPT !.links[parentname][type] =
                            DictSet(@, getObjectName(obj, None), props)])
          ELSE GeometryLoop(Tail(objectlist), robot)

\* a combination that keeps the mask of the last collision object only
RECURSIVE CombineLast(_, _, _)
CombineLast(collision, collnames, bitmask) ==
  IF collnames = <<>> THEN bitmask
  ELSE CombineLast(collision, Tail(collnames),
         IF "bitmask" \in DOMAIN collision[Head(collnames)]
         THEN collision[Head(collnames)].bitmask
         ELSE bitmask)

\* lines 666-671: the try/except KeyError skips a collision without 'bitmask'
RECURSIVE Combine(_, _, _)
Combine(collision, collnames, bitmask) ==
  IF collnames = <<>> THEN bitmask
  ELSE Combine(collision, Tail(collnames),
         IF "bitmask" \in DOMAIN collision[Head(collnames)]
         THEN BitOr(bitmask, collision[Head(collnames)].bitmask)
         ELSE bitmask)

\* lines 664-672
CombineLinks(links) ==
  [linkname \in DOMAIN links |->
     DictSet(links[linkname], "collision_bitmask",
             Combine(links[linkname].collision, SortedKeys(links[linkname].collision), 0))]

\* lines 700-705
RECURSIVE GatherChains(_)
GatherChains(objectlist) ==
  IF objectlist = <<>> THEN <<>>
  ELSE (IF objects[Head(objectlist)].phobostype = "link" /\ HasKey(Head(objectlist), "endChain")
        THEN deriveChainEntry(Head(objectlist))
        ELSE <<>>) \o GatherChains(Tail(objectlist))

RECURSIVE EnterChains(_, _)
EnterChains(chains, dict) ==
  IF chains = <<>> THEN dict
  ELSE EnterChains(Tail(chains), DictSet(dict, Head(chains).name, Head(chains)))

\* the last statement: gUtils is not a name of the module (line 47 imports
\* epsilonToZero itself), so evaluating gUtils.epsilonToZero raises NameError
ReturnStatus == "NameError"

\* [status, robot, objectlist]: the exception raised and the dictionary as it
\* stands when it is raised; yaml.load in deriveStoredPoses may raise before
\* the last statement does.  The scene holds no inertial, approxsphere, sensor,
\* controller or light object, no material and no group.
buildModelDictionary(root) ==
  IF ~RootIsLink(root)
  THEN [status |-> "Exception", robot |-> EmptyRobot, objectlist |-> <<>>]
  ELSE LET r0 == [x \in (DOMAIN EmptyRobot) \cup {"modelname"} |->
                    IF x = "modelname" THEN ModelName(root) ELSE EmptyRobot[x]]
           objectlist == ObjectList(root)
           linklist == SelectSeq(objectlist, LAMBDA o : objects[o].phobostype = "link")
           g == With(LinkLoop(linklist, r0), LAMBDA r1 : GeometryLoop(objectlist, r1))
       IN IF g.status # "ok"
          THEN [status |-> g.status, robot |-> g.robot, objectlist |-> objectlist]
          ELSE LET r2 == [g.robot EXCEPT !.links = CombineLinks(@)]
                   r3 == [r2 EXCEPT !.chains = EnterChains(GatherChains(objectlist), EmptyDict)]
                   poses == deriveStoredPoses
               IN IF poses.status # "returned"
                  THEN [status |-> poses.status, robot |-> r3, objectlist |-> objectlist]
                  ELSE [status |-> ReturnStatus,
                        robot |-> [r3 EXCEPT !.poses = poses.value],
                        objectlist |-> objectlist]

\* the link loop leaves 'joint/type' on the links it has derived a joint for
BuildModelDictionaryCall(root) ==
  /\ ret' = [op |-> "buildModelDictionary", root |-> root,
             value |-> buildModelDictionary(root)]
  /\ objects' = IF RootIsLink(root)
                THEN AdjustedBy({o \in Range(ObjectList(root)) : objects[o].phobostype = "link"})
                ELSE objects
  /\ UNCHANGED <<texts, mode, stored, kept, steps, loader_optional>>

\* ---------------------------------------------------------------- the scenes of the model dictionary
\* the shapes of the scene: a line, a star below object 1, two trees
BuildParents ==
  {[o \in 1..NBuildObj |-> o - 1],
   [o \in 1..NBuildObj |-> IF o = 1 THEN 0 ELSE 1],
   [o \in 1..NBuildObj |-> PoseParent(o)]}

\* the collision groups of object o when it has rigid-body settings: group o - 1
\* and, beyond the 16 groups that count, group o + 15
GroupsOf(o) == [i \in 1..NumGroups |-> i = o \/ i = o + MaskLen]

StoredText == << [name |-> PoseFile("r1"), body |-> yamlDump(DictSet(EmptyDict, "p", DictSet(EmptyDict, "ja", 1)))] >>

\* the names of a scene: none, 'modelname' and 'link/name' on object 1,
\* 'link/name' on the last object, both, 'joint/name' = 'ja' on objects 2 and 3
Namings == {"plain", "named", "tagged", "both", "joint"}

\* the motor and joint properties of the links of a scene
Drives == {"none", "PID", "PIDrevolute", "PIDvelocity", "DC", "DCnoMaxSpeed"}

InitBuild ==
  /\ \E f \in BuildParents, types \in [1..NBuildObj -> {"link", "collision", "visual"}],
        rigid \in SUBSET (1..NBuildObj), unsel \in {0, 2}, naming \in Namings,
        drive \in Drives, extra \in BOOLEAN, lo \in BOOLEAN :
       /\ \A o \in rigid : types[o] = "collision"
       /\ \/ naming = "plain" /\ drive = "none"
          \/ naming = "plain" /\ ~extra
          \/ drive = "none" /\ ~extra
       /\ ~extra => lo
       /\ loader_optional = lo
       /\ LET named == naming \in {"named", "both"}
              tagged == naming \in {"tagged", "both"}
          IN objects = [o \in 1..NBuildObj |->
            [Blank EXCEPT
               !.parent = f[o],
               !.phobostype = types[o],
               !.select = (o # unsel),
               !.keys = (IF o = 1 /\ named THEN {"modelname", "link/name"} ELSE {})
                          \cup (IF tagged /\ o = NBuildObj THEN {"link/name"} ELSE {})
                          \cup (IF naming = "joint" /\ o \in {2, 3} THEN {"joint/name"} ELSE {})
                          \cup (IF extra /\ o = 1 THEN {"startChain"} ELSE {})
                          \cup (IF extra /\ o = NBuildObj THEN {"endChain"} ELSE {})
                          \cup (IF types[o] = "link" /\ drive # "none"
                                THEN {"motor/type"} ELSE {})
                          \cup (IF types[o] = "link" /\ drive = "DC"
                                THEN {"motor/maxSpeed"} ELSE {})
                          \cup (IF types[o] = "link" /\ drive = "PIDvelocity"
                                THEN {"joint/maxvelocity", "joint/maxeffort"} ELSE {}),
               !.modelname = IF o = 1 /\ named THEN "r1" ELSE "",
               !.linkname = IF o = 1 /\ named THEN "la"
                            ELSE IF tagged /\ o = NBuildObj THEN "lb" ELSE "",
               !.jointname = IF naming = "joint" /\ o \in {2, 3} THEN "ja" ELSE "",
               !.rigid_body = (o \in rigid),
               !.collision_groups = IF o \in rigid THEN GroupsOf(o) ELSE <<>>,
               !.startChain = IF extra /\ o = 1 THEN <<"c1">> ELSE <<>>,
               !.endChain = IF extra /\ o = NBuildObj THEN <<"c1">> ELSE <<>>,
               !.constraint = IF types[o] = "link" /\ drive = "PIDrevolute"
                              THEN "revolute" ELSE "none",
               !.maxvelocity = IF types[o] = "link" /\ drive = "PIDvelocity" THEN 2 ELSE 0,
               !.maxeffort = IF types[o] = "link" /\ drive = "PIDvelocity" THEN 3 ELSE 0,
               !.motortype = IF types[o] # "link" \/ drive = "none" THEN ""
                             ELSE IF drive \in {"DC", "DCnoMaxSpeed"} THEN "DC" ELSE "PID",
               !.maxSpeed = IF types[o] = "link" /\ drive = "DC" THEN 4 ELSE 0]]
       /\ texts = IF extra THEN StoredText ELSE <<>>
  /\ mode = "OBJECT"
  /\ ret = Idle
  /\ stored = <<>>
  /\ kept = {}
  /\ steps = 0

NextBuild ==
  \/ \E root \in DOMAIN objects : BuildModelDictionaryCall(root)
  \/ \E o \in DOMAIN objects : DeriveKinematicsCall(o)

SpecBuild == InitBuild /\ [][NextBuild]_vars

IsBuild == ret.op = "buildModelDictionary"

\* the build went through every section of the dictionary
BuildComplete ==
  IsBuild /\ ret.value.status \notin {"Exception", "AttributeError", "KeyError", "ValueError"}

\* C5: with a root that is no link the build raises an exception with nothing
\* parsed into the dictionary; with a link as root the 'modelname' is the
\* property of the root, 'unnamed_robot' when it has none.
C5_RootCheck ==
  IsBuild =>
    IF objects[ret.root].phobostype # "link"
    THEN /\ ret.value.status = "Exception"
         /\ \A sec \in {"links", "joints", "motors", "sensors", "controllers",
                        "materials", "lights", "groups", "chains", "poses"} :
              DOMAIN ret.value.robot[sec] = {}
    ELSE ret.value.robot.modelname =
           IF "modelname" \in objects[ret.root].keys
           THEN objects[ret.root].modelname
           ELSE "unnamed_robot"

\* a build was refused for a root that is no link although a selected link hangs below it
C5_Witness ==
  /\ IsBuild
  /\ ret.value.status = "Exception"
  /\ \E o \in DOMAIN objects :
       /\ objects[o].parent = ret.root
       /\ objects[o].phobostype = "link"
       /\ objects[o].select

\* every visual and collision object of the model hangs below a link of the model
Derivable(root) ==
  \A o \in Range(ObjectList(root)) :
    objects[o].phobostype \in {"visual", "collision"} =>
      /\ getEffectiveParent(o) # 0
      /\ objects[getEffectiveParent(o)].phobostype = "link"

\* C6: for a link as root whose objects carry all the information their
\* derivation needs, buildModelDictionary returns the dictionary and the objects.
C6_BuildReturns ==
  (IsBuild /\ objects[ret.root].phobostype = "link" /\ Derivable(ret.root))
    => ret.value.status = "returned"

Bit(n, i) == (n \div Pow(2, i)) % 2 = 1

\* C9: in the dictionary of a build that went through, every link carries a
\* 'collision_bitmask' whose bit i is set exactly when some collision object
\* stored under the link has a 'bitmask' with bit i set; it is 0 for a link
\* without collision object.
C9_LinkBitmask ==
  BuildComplete =>
    \A ln \in DOMAIN ret.value.robot.links :
      LET link == ret.value.robot.links[ln]
      IN /\ "collision_bitmask" \in DOMAIN link
         /\ link.collision_bitmask \in 0..(Pow(2, 16) - 1)
         /\ \A i \in 0..15 :
              Bit(link.collision_bitmask, i) <=>
                \E c \in DOMAIN link.collision :
                  /\ "bitmask" \in DOMAIN link.collision[c]
                  /\ Bit(link.collision[c].bitmask, i)
         /\ (DOMAIN link.collision = {}) => link.collision_bitmask = 0

\* a link of the dictionary holds two collision objects with different masks and
\* its mask differs from both
C9_Witness ==
  /\ BuildComplete
  /\ \E ln \in DOMAIN ret.value.robot.links :
       LET link == ret.value.robot.links[ln]
       IN \E c, d \in DOMAIN link.collision :
            /\ "bitmask" \in DOMAIN link.collision[c]
            /\ "bitmask" \in DOMAIN link.collision[d]
            /\ link.collision[c].bitmask # link.collision[d].bitmask
            /\ link.collision_bitmask # link.collision[c].bitmask
            /\ link.collision_bitmask # link.collision[d].bitmask

\* the links buildModelDictionary parses
ModelLinks(root) == {o \in Range(ObjectList(root)) : objects[o].phobostype = "link"}

\* the links of the model that have a parent and are parsed after o
LaterLinks(root, o) == {m \in ModelLinks(root) : m > o /\ objects[m].parent # 0}

\* C10 as stated: deriveKinematics gives a link without parent no joint and no
\* motor and a link with a parent a joint whose child is the link and whose
\* parent is its effective parent; after the link loop of the build that joint
\* is in robot['joints'], and neither joint nor motor is there for a link
\* without parent.
C10_JointsOfLinks ==
  /\ ret.op = "deriveKinematics" =>
       LET o == ret.obj
           k == ret.value
       IN IF objects[o].parent = 0
          THEN k.joint = <<>> /\ k.motor = <<>>
          ELSE /\ Len(k.joint) = 1
               /\ k.joint[1].child = getObjectName(o, None)
               /\ k.joint[1].parent = getObjectName(getEffectiveParent(o), None)
  /\ (IsBuild /\ ret.value.status # "Exception") =>
       \A o \in ModelLinks(ret.root) :
         LET jn == getObjectName(o, "joint")
             joints == ret.value.robot.joints
         IN IF objects[o].parent = 0
            THEN /\ jn \notin DOMAIN joints
                 /\ name(o) \notin DOMAIN ret.value.robot.motors
            ELSE /\ jn \in DOMAIN joints
                 /\ joints[jn].child = getObjectName(o, None)
                 /\ joints[jn].parent = getObjectName(getEffectiveParent(o), None)

\* C10, amended: deriveKinematics gives a link without parent no joint and no
\* motor and a link with a parent a joint whose child is the link and whose
\* parent is its effective parent; the build enters that joint in
\* robot['joints'] under its joint name, in place of the joint of a link parsed
\* before it under the same name, so that every joint name of a link with a
\* parent is a key of robot['joints'] and carries the joint of the last link
\* of that joint name; neither joint nor motor is entered for a link without
\* parent.
C10_JointsLastWins ==
  /\ ret.op = "deriveKinematics" =>
       LET o == ret.obj
           k == ret.value
       IN IF objects[o].parent = 0
          THEN k.joint = <<>> /\ k.motor = <<>>
          ELSE /\ Len(k.joint) = 1
               /\ k.joint[1].child = getObjectName(o, None)
               /\ k.joint[1].parent = getObjectName(getEffectiveParent(o), None)
  /\ (IsBuild /\ ret.value.status # "Exception") =>
       \A o \in ModelLinks(ret.root) :
         LET jn == getObjectName(o, "joint")
             joints == ret.value.robot.joints
         IN IF objects[o].parent = 0
            THEN /\ jn \notin DOMAIN joints
                 /\ name(o) \notin DOMAIN ret.value.robot.motors
            ELSE /\ jn \in DOMAIN joints
                 /\ (\A m \in LaterLinks(ret.root, o) : getObjectName(m, "joint") # jn)
                      => /\ joints[jn].child = getObjectName(o, None)
                         /\ joints[jn].parent = getObjectName(getEffectiveParent(o), None)

\* a build in which two links with a parent carry the same joint name and
\* robot['joints'] holds the joint of the later one under that name
C10_Witness ==
  /\ IsBuild
  /\ ret.value.status # "Exception"
  /\ \E o, m \in ModelLinks(ret.root) :
       /\ o < m
       /\ objects[o].parent # 0
       /\ objects[m].parent # 0
       /\ getObjectName(o, "joint") = getObjectName(m, "joint")
       /\ getObjectName(m, "joint") \in DOMAIN ret.value.robot.joints
       /\ ret.value.robot.joints[getObjectName(m, "joint")].child = getObjectName(m, None)

====
